---- MODULE Spec2Model ----
(***************************************************************************)
(* Model of the photon collision simulator: the engine loop of            *)
(* physics_engine.py (simulation_process), its collision resolver, the     *)
(* spatial grid of grid.py, the vector arithmetic of vector.py, and the    *)
(* two channels that link the engine to the control surface and to the    *)
(* visualizer.                                                             *)
(*                                                                         *)
(* Floating-point quantities are kept in fixed point:                      *)
(*   positions and velocities   in 1/100 of a unit      (PosScale)         *)
(*   unit vectors, dot products in 1/10000              (UnitScale)        *)
(*   wavelengths and energies   in 1/100                (EnScale)          *)
(*   time_scale                 in 1/10                 (TsScale)          *)
(*   global_decay               in 1/100                (DecayScale)       *)
(*   emission angles            in 1/100 rad                               *)
(* Every product below stays under 2^31.                                   *)
(***************************************************************************)
EXTENDS Integers, Sequences, FiniteSets, TLC

\* ------------------------------------------------------------ fixed point
PosScale == 100
UnitScale == 10000
EnScale == 100
TsScale == 10
DecayScale == 100

Abs(a) == IF a < 0 THEN -a ELSE a
Min(a, b) == IF a < b THEN a ELSE b
Max(a, b) == IF a > b THEN a ELSE b

\* a / b rounded to the nearest integer, halves away from zero (b > 0)
RDiv(a, b) == IF a >= 0 THEN (a + b \div 2) \div b ELSE -(((-a) + b \div 2) \div b)

\* Python's int(a / b) for b > 0: truncation toward zero
TruncDiv(a, b) == IF a >= 0 THEN a \div b ELSE -((-a) \div b)

\* a * b / c (c > 0, 0 <= b), floored, without forming a * b when a is large
MulDiv(a, b, c) == IF a >= 0 THEN (a \div c) * b + ((a % c) * b) \div c
                   ELSE -((((-a) \div c) * b) + (((-a) % c) * b) \div c)

RECURSIVE SqrtSearch(_, _, _)
SqrtSearch(n, lo, hi) ==
    IF lo >= hi THEN lo
    ELSE LET mid == (lo + hi + 1) \div 2
         IN  IF mid * mid <= n THEN SqrtSearch(n, mid, hi) ELSE SqrtSearch(n, lo, mid - 1)

\* math.sqrt, floored to the fixed-point grid
Sqrt(n) == SqrtSearch(n, 0, 46340)

\* ------------------------------------------------------------- vector.py
Vector2D(x, y) == [x |-> x, y |-> y]
VAdd(a, b) == Vector2D(a.x + b.x, a.y + b.y)
VSub(a, b) == Vector2D(a.x - b.x, a.y - b.y)
Magnitude(v) == Sqrt(v.x * v.x + v.y * v.y)

\* v.normalize(): a vector in UnitScale; the zero vector for the zero vector
Normalize(v) ==
    LET mag == Magnitude(v)
    IN  IF mag = 0 THEN Vector2D(0, 0)
        ELSE Vector2D(RDiv(v.x * UnitScale, mag), RDiv(v.y * UnitScale, mag))

\* a unit-scaled vector times a scalar of some scale: the result is in that scale
UnitTimes(u, k) == Vector2D(RDiv(u.x * k, UnitScale), RDiv(u.y * k, UnitScale))

\* ------------------------------------------------ physics_engine.py constants
ENV_W == 800 * PosScale
ENV_H == 600 * PosScale
SPEED_OF_LIGHT == 200 * PosScale
COLLISION_RADIUS == 8 * PosScale
CELL_SIZE == 3 * COLLISION_RADIUS
K_ENERGY == 100000 * EnScale * EnScale
DT_MILLI == 16
DATA_Q_LIMIT == 2
SEP_EXTRA == 10
START_X == 50 * PosScale
START_Y == ENV_H \div 2

CORRECTION_TOL == 1

\* ------------------------------------------------- PhotonLikeParticle
PhotonLikeParticle(pid, pos, vel, wavelength) ==
    [id |-> pid, position |-> pos, velocity |-> vel, wavelength |-> wavelength]

\* property energy: 100000.0 / max(1.0, wavelength)
energy(p) == RDiv(K_ENERGY, Max(EnScale, p.wavelength))

\* property momentum_magnitude: energy / SPEED_OF_LIGHT (energy scale per unit speed)
momentum_magnitude(p) == RDiv(energy(p) * PosScale, SPEED_OF_LIGHT)

\* set_energy: a non-positive energy is replaced by 1.0
set_energy(p, new_energy) ==
    LET e == IF new_energy <= 0 THEN EnScale ELSE new_energy
    IN  [p EXCEPT !.wavelength = RDiv(K_ENERGY, e)]

\* ------------------------------------------------- resolve_relativistic_collision
Dot(u, w) == RDiv(u.x * w.x + u.y * w.y, UnitScale)

\* the axis from p2 to p1, (1, 0) when the positions coincide
CollisionAxis(p1, p2) ==
    LET a == Normalize(VSub(p1.position, p2.position))
    IN  IF Magnitude(a) = 0 THEN Vector2D(UnitScale, 0) ELSE a

\* a reflection that would keep the tangential part only
ReflectStops(vnorm, axis, along) ==
    UnitTimes(VSub(vnorm, UnitTimes(axis, along)), SPEED_OF_LIGHT)

\* (tangent + axis * (-along)).normalize() * SPEED_OF_LIGHT
Reflect(vnorm, axis, along) ==
    LET tangent == VSub(vnorm, UnitTimes(axis, along))
        vnew == Normalize(VAdd(tangent, UnitTimes(axis, -along)))
    IN  UnitTimes(vnew, SPEED_OF_LIGHT)

\* a resolver that would also push the first particle along the axis
OutcomeMoves(p1, p2, E1_final, E2_final, collision_axis, v1_norm, v2_norm, v1_along, v2_along) ==
    << [set_energy(p1, E1_final) EXCEPT !.velocity = Reflect(v1_norm, collision_axis, v1_along),
                                        !.position = VAdd(p1.position, UnitTimes(collision_axis, PosScale))],
       [set_energy(p2, E2_final) EXCEPT !.velocity = Reflect(v2_norm, collision_axis, v2_along)] >>

\* a resolver that would leave both particles on their course
OutcomeFliesOn(p1, p2, E1_final, E2_final, collision_axis, v1_norm, v2_norm, v1_along, v2_along) ==
    << set_energy(p1, E1_final), set_energy(p2, E2_final) >>

\* lines 122-143: the new wavelengths and the reflected velocities
Outcome(p1, p2, E1_final, E2_final, collision_axis, v1_norm, v2_norm, v1_along, v2_along) ==
    << [set_energy(p1, E1_final) EXCEPT !.velocity = Reflect(v1_norm, collision_axis, v1_along)],
       [set_energy(p2, E2_final) EXCEPT !.velocity = Reflect(v2_norm, collision_axis, v2_along)] >>

\* lines 115-120: within the tolerance the two sums are the same point of the
\* fixed-point grid, so correction_factor = expected / E_final_sum is exactly 1
Corrected(E, E_final_sum, expected) ==
    IF E_final_sum > 0 /\ Abs(E_final_sum - expected) < CORRECTION_TOL
    THEN E * (expected \div E_final_sum)
    ELSE E

\* lines 109-112: E *= (1.0 - decay) when decay > 0
Decayed(E, decay) == IF decay > 0 THEN RDiv(E * (DecayScale - decay), DecayScale) ELSE E

\* lines 101-120 for the energies E1, E2 after the transfer
Settle(p1, p2, decay, E_total, E1, E2, collision_axis, v1_norm, v2_norm, v1_along, v2_along) ==
    Outcome(p1, p2,
            Corrected(Decayed(E1, decay), Decayed(E1, decay) + Decayed(E2, decay),
                      Decayed(E_total, decay)),
            Corrected(Decayed(E2, decay), Decayed(E1, decay) + Decayed(E2, decay),
                      Decayed(E_total, decay)),
            collision_axis, v1_norm, v2_norm, v1_along, v2_along)

\* lines 94-106: min(E1, E2) * (collision_efficiency * 0.5) goes from the
\* particle with more energy to the other
Transfer(p1, p2, decay, E1_initial, E2_initial, energy_transfer, collision_axis, v1_norm, v2_norm, v1_along, v2_along) ==
    Settle(p1, p2, decay, E1_initial + E2_initial,
           IF E1_initial > E2_initial THEN E1_initial - energy_transfer
           ELSE E1_initial + energy_transfer,
           IF E1_initial > E2_initial THEN E2_initial + energy_transfer
           ELSE E2_initial - energy_transfer,
           collision_axis, v1_norm, v2_norm, v1_along, v2_along)

\* lines 82-98
Along(p1, p2, decay, E1_initial, E2_initial, collision_axis, v1_norm, v2_norm, v1_along, v2_along) ==
    Transfer(p1, p2, decay, E1_initial, E2_initial,
             MulDiv(Min(E1_initial, E2_initial), Abs(v1_along - v2_along), 2 * UnitScale),
             collision_axis, v1_norm, v2_norm, v1_along, v2_along)

\* lines 63-83
Decompose(p1, p2, decay, E1_initial, E2_initial, collision_axis, v1_norm, v2_norm) ==
    Along(p1, p2, decay, E1_initial, E2_initial, collision_axis, v1_norm, v2_norm,
          Dot(v1_norm, collision_axis), Dot(v2_norm, collision_axis))

\* the pair <<p1, p2>> after the collision; decay is tunable_params['global_decay']
resolve_relativistic_collision(p1, p2, decay) ==
    Decompose(p1, p2, decay, energy(p1), energy(p2), CollisionAxis(p1, p2),
              Normalize(p1.velocity), Normalize(p2.velocity))

\* ------------------------------------------------------------- grid.py
\* a cell key; int() truncates toward zero
CellKey(pos) == << TruncDiv(pos.x, CELL_SIZE), TruncDiv(pos.y, CELL_SIZE) >>

\* a variant of GridClear that keeps the buckets
GridClearKeeps(cells) == cells

\* Grid.clear: self.cells = {}
GridClear(cells) == [k \in {} |-> << >>]

\* Grid.insert: cells is a function from the keys in use to sequences of particle
\* ids (the references the buckets hold)
GridInsert(cells, p) ==
    LET key == CellKey(p.position)
    IN  IF key \in DOMAIN cells
        THEN [cells EXCEPT ![key] = Append(@, p.id)]
        ELSE [k \in DOMAIN cells \cup {key} |-> IF k = key THEN << p.id >> ELSE cells[k]]

\* the raster scan of get_neighbors: dx outer, dy inner, each over -1, 0, 1
ScanOffsets == << <<-1, -1>>, <<-1, 0>>, <<-1, 1>>, <<0, -1>>, <<0, 0>>, <<0, 1>>,
                 <<1, -1>>, <<1, 0>>, <<1, 1>> >>

RECURSIVE ScanCells(_, _, _)
ScanCells(cells, c, n) ==
    IF n > Len(ScanOffsets) THEN << >>
    ELSE LET key == << c[1] + ScanOffsets[n][1], c[2] + ScanOffsets[n][2] >>
         IN  (IF key \in DOMAIN cells THEN cells[key] ELSE << >>) \o ScanCells(cells, c, n + 1)

\* Grid.get_neighbors: the ids found in the 3x3 block around the particle's
\* current cell
get_neighbors(cells, p) == ScanCells(cells, CellKey(p.position), 1)

\* ------------------------------------------------------------- bounds
MaxTick == 4
MaxQueue == 2
MaxSent == 3

\* ------------------------------------------------------------- messages
Absent == -1
NoCommand == "none"
Command(c) == [command |-> c, has_params |-> FALSE,
               photon_count |-> Absent, global_decay |-> Absent, time_scale |-> Absent]
Params(n, d, t) == [command |-> NoCommand, has_params |-> TRUE,
                    photon_count |-> n, global_decay |-> d, time_scale |-> t]
CommandParams(c, n, d, t) == [Params(n, d, t) EXCEPT !.command = c]
EmptyMessage == Command(NoCommand)

\* what the control surface sends in the general specification: the four
\* commands, an unknown command, an empty message, a parameter message and a
\* message with both fields
Msgs == { Command("START"), Command("STOP"), Command("FIRE"), Command("CLEAR"),
          Command("PAUSE"), EmptyMessage,
          Params(2, 10, 20), CommandParams("FIRE", 1, Absent, 20) }

\* (cos, sin) of an angle given in 1/100 rad, in UnitScale
CosSin(a) == CASE a = 0 -> Vector2D(10000, 0)
               [] a = 1 -> Vector2D(10000, 100)
               [] a = -1 -> Vector2D(10000, -100)
               [] a = 15 -> Vector2D(9888, 1494)
               [] a = -15 -> Vector2D(9888, -1494)

\* the two draws of one emission, random.uniform(-0.15, 0.15) and
\* random.uniform(350, 800): a sample of the rectangle the code draws from
Draws == { [angle |-> 0, wavelength |-> 400 * EnScale],
           [angle |-> -1, wavelength |-> 700 * EnScale] }

\* Vector2D(random.choice([-1, 1]), random.choice([-1, 1])).normalize()
Diagonals == { Vector2D(sx * 7071, sy * 7071) : sx \in {-1, 1}, sy \in {-1, 1} }

\* ------------------------------------------------------------- state
VARIABLES
    running,          \* simulation_process: running
    beam_queue,       \* simulation_process: beam_queue
    next_id,          \* simulation_process: next_id
    tick,             \* simulation_process: tick
    collision_count,  \* simulation_process: collision_count
    particles,        \* simulation_process: particles, a sequence of particle records
    tunable_params,   \* the module-level dict tunable_params
    cells,            \* grid.cells: cell key -> sequence of references (list indices)
    param_q,          \* the control channel, oldest message first
    data_q,           \* the data channel, oldest frame first
    displayed,        \* visualizer: the frame shown by the last update
    calls,            \* history: the id pairs handed to the resolver in this iteration
    queries,          \* history: the neighbor queries of this iteration
    burst,            \* history: the burst queued by the last FIRE
    issued,           \* history: the ids given to particles so far in the run
    sent,             \* history: how many messages the control surface has sent
    reads,            \* history: the parameter values the tick of this iteration read
    faults,           \* history: how many errors the loop has caught
    horizon           \* the number of ticks a behaviour of the specification runs

vars == << running, beam_queue, next_id, tick, collision_count, particles,
           tunable_params, cells, param_q, data_q, displayed,
           calls, queries, burst, issued, sent, reads, faults, horizon >>

NoFrame == [tick |-> Absent, count |-> Absent, collisions |-> Absent]
NoBurst == [n |-> Absent, base |-> Absent, first_id |-> Absent, t0 |-> Absent]
NoReads == [time_scale |-> Absent, wall_decay |-> Absent, collision_decay |-> Absent]

InitEngine ==
    /\ running = FALSE
    /\ beam_queue = 0
    /\ next_id = 0
    /\ tick = 0
    /\ collision_count = 0
    /\ particles = << >>
    /\ tunable_params = [photon_count |-> 200, global_decay |-> 0, time_scale |-> 1 * TsScale]
    /\ cells = GridClear(<< >>)
    /\ data_q = << >>
    /\ displayed = NoFrame
    /\ calls = << >>
    /\ queries = << >>
    /\ burst = NoBurst
    /\ issued = {}
    /\ reads = NoReads
    /\ faults = 0

Init == InitEngine /\ param_q = << >> /\ sent = 0 /\ horizon = MaxTick

\* ----------------------------------------------- the engine: message intake
\* the loop's locals that a message can change
Control == [running |-> running, beam_queue |-> beam_queue, next_id |-> next_id,
            collision_count |-> collision_count, particles |-> particles,
            tunable_params |-> tunable_params, burst |-> burst]

\* line 169
Start(c) == [c EXCEPT !.running = TRUE]

\* line 171
Stop(c) == [c EXCEPT !.running = FALSE]

\* a variant of Fire that leaves the run state alone
FireKeepsRunState(c) == [c EXCEPT !.beam_queue = c.tunable_params.photon_count,
                                  !.burst = [n |-> c.tunable_params.photon_count,
                                             base |-> Len(c.particles),
                                             first_id |-> c.next_id,
                                             t0 |-> tick]]

\* lines 173-174; the burst history is taken here
Fire(c) == [c EXCEPT !.beam_queue = c.tunable_params.photon_count,
                     !.running = TRUE,
                     !.burst = [n |-> c.tunable_params.photon_count,
                                base |-> Len(c.particles),
                                first_id |-> c.next_id,
                                t0 |-> tick]]

\* a variant of Clear that keeps the id counter
ClearKeepsCounter(c) == [c EXCEPT !.particles = << >>, !.beam_queue = 0,
                                  !.collision_count = 0, !.burst = NoBurst]

\* lines 176-179; the burst history is dropped here
Clear(c) == [c EXCEPT !.particles = << >>, !.beam_queue = 0, !.next_id = 0,
                      !.collision_count = 0, !.burst = NoBurst]

\* the command branch (lines 166-179): an unknown command changes nothing
ApplyCommand(c, cmd) ==
    CASE cmd = "START" -> Start(c)
      [] cmd = "STOP" -> Stop(c)
      [] cmd = "FIRE" -> Fire(c)
      [] cmd = "CLEAR" -> Clear(c)
      [] OTHER -> c

\* tunable_params.update(msg['params']): the keys present replace the stored ones
UpdateParams(tp, m) ==
    [photon_count |-> IF m.photon_count = Absent THEN tp.photon_count ELSE m.photon_count,
     global_decay |-> IF m.global_decay = Absent THEN tp.global_decay ELSE m.global_decay,
     time_scale |-> IF m.time_scale = Absent THEN tp.time_scale ELSE m.time_scale]

\* a variant of ApplyMessage that merges the parameters before the command
ApplyParamsFirst(c, m) ==
    LET c1 == IF m.has_params
              THEN [c EXCEPT !.tunable_params = UpdateParams(c.tunable_params, m)]
              ELSE c
    IN  IF m.command # NoCommand THEN ApplyCommand(c1, m.command) ELSE c1

\* lines 166-182: the command first, then the parameters
ApplyMessage(c, m) ==
    LET c1 == IF m.command # NoCommand THEN ApplyCommand(c, m.command) ELSE c
    IN  IF m.has_params
        THEN [c1 EXCEPT !.tunable_params = UpdateParams(c1.tunable_params, m)]
        ELSE c1

\* a variant of Oldest that takes the newest message
Newest(q) == q[Len(q)]

\* param_q.get_nowait() on a channel that holds messages: the oldest one
Oldest(q) == Head(q)

\* a poll that would take the message off the channel and drop it
PollDrops == Control

\* lines 164-184: the locals after the poll; queue.Empty leaves them alone
AfterPoll == IF param_q = << >> THEN Control ELSE ApplyMessage(Control, Oldest(param_q))

\* a variant of Idles that never idles
IdlesNever(run) == FALSE

\* line 186: if not running
Idles(run) == ~run

\* ----------------------------------------------- the engine: one running tick
\* lines 191-205: the particle appended by the emission step
Emitted(nid, angle, wavelength) ==
    PhotonLikeParticle(nid, Vector2D(START_X, START_Y),
                       UnitTimes(Normalize(CosSin(angle)), SPEED_OF_LIGHT), wavelength)

\* a variant of NextId that forgets the increment
NextIdUnchanged(nid) == nid

\* the counter after an emission (line 204)
NextId(nid) == nid + 1

\* a variant of BeamAfter that forgets the decrement
BeamAfterUnchanged(bq) == bq

\* the beam queue after an emission (line 205)
BeamAfter(bq) == bq - 1

\* line 191: if beam_queue > 0
Emits(bq) == bq > 0

\* line 212: position + velocity * dt * t_scale
Integrate(p, t_scale) ==
    VAdd(p.position, Vector2D(RDiv(p.velocity.x * DT_MILLI * t_scale, 1000 * TsScale),
                              RDiv(p.velocity.y * DT_MILLI * t_scale, 1000 * TsScale)))

\* a variant of Clamp that leaves the coordinate where the integration put it
ClampNone(lo, hi, v) == v

\* max(lo, min(hi, v)), lines 216 and 222
Clamp(lo, hi, v) == Max(lo, Min(hi, v))

\* lines 212-228 for one particle: movement, wall reflection, wall energy loss
Move(p, t_scale, decay) ==
    LET pos == Integrate(p, t_scale)
        hit_x == pos.x <= COLLISION_RADIUS \/ pos.x >= ENV_W - COLLISION_RADIUS
        hit_y == pos.y <= COLLISION_RADIUS \/ pos.y >= ENV_H - COLLISION_RADIUS
        npos == Vector2D(IF hit_x THEN Clamp(COLLISION_RADIUS, ENV_W - COLLISION_RADIUS, pos.x)
                         ELSE pos.x,
                         IF hit_y THEN Clamp(COLLISION_RADIUS, ENV_H - COLLISION_RADIUS, pos.y)
                         ELSE pos.y)
        nvel == Vector2D(IF hit_x THEN -p.velocity.x ELSE p.velocity.x,
                         IF hit_y THEN -p.velocity.y ELSE p.velocity.y)
        q == [p EXCEPT !.position = npos, !.velocity = nvel]
    IN  IF (hit_x \/ hit_y) /\ decay > 0
        THEN set_energy(q, RDiv(energy(q) * (2 * DecayScale - decay), 2 * DecayScale))
        ELSE q

MoveAll(ps, t_scale, decay) == [i \in 1..Len(ps) |-> Move(ps[i], t_scale, decay)]

\* lines 231-233: grid.clear(), then grid.insert(p) for every particle, in list
\* order; a bucket holds references to particles, here their list positions
RECURSIVE InsertFrom(_, _, _)
InsertFrom(cs, ps, i) ==
    IF i > Len(ps) THEN cs
    ELSE InsertFrom(GridInsert(cs, [ps[i] EXCEPT !.id = i]), ps, i + 1)

Rebuild(cs, ps) == InsertFrom(GridClear(cs), ps, 1)

\* a variant of SkipPair with > for >=
SkipPairStrict(id1, id2) == id1 > id2

\* line 240: if p1.id >= p2.id: continue
SkipPair(id1, id2) == id1 >= id2

\* whether particle k is in collision range of particle i (distance < 2 R)
InRange(ps, i, k) ==
    LET d == VSub(ps[i].position, ps[k].position)
    IN  /\ Abs(d.x) < 2 * COLLISION_RADIUS
        /\ Abs(d.y) < 2 * COLLISION_RADIUS
        /\ d.x * d.x + d.y * d.y < (2 * COLLISION_RADIUS) * (2 * COLLISION_RADIUS)

\* lines 258-263: both particles pushed apart along sep by overlap / 2 + 0.1
Separate(ps, i, k, sep, overlap) ==
    LET push == UnitTimes(sep, RDiv(overlap, 2) + SEP_EXTRA)
        a == [ps EXCEPT ![i].position = VAdd(@, push)]
    IN  [a EXCEPT ![k].position = VSub(@, push)]

\* lines 239-263, from the j-th neighbor on, for the particle at list position i.
\* st holds the particle list, the processed set, the collision counter and the
\* two histories. The result is the set of states the loop can end in: one,
\* unless a pair coincides and the fallback direction is drawn at random.
RECURSIVE CollideWith(_, _, _, _, _)
CollideWith(st, i, nbrs, j, decay) ==
    IF j > Len(nbrs) THEN {st}
    ELSE LET k == nbrs[j]
             p1 == st.ps[i]
             p2 == st.ps[k]
             pair_id == << p1.id, p2.id >>
         IN  IF SkipPair(p1.id, p2.id) \/ pair_id \in st.processed
             THEN CollideWith(st, i, nbrs, j + 1, decay)
             ELSE LET diff == VSub(p1.position, p2.position)
                      dist == Magnitude(diff)
                  IN  IF dist < 2 * COLLISION_RADIUS
                      THEN LET r == resolve_relativistic_collision(p1, p2, decay)
                               ps1 == [[st.ps EXCEPT ![i] = r[1]] EXCEPT ![k] = r[2]]
                               overlap == 2 * COLLISION_RADIUS - dist
                               separation == Normalize(diff)
                               dirs == IF Magnitude(separation) = 0 THEN Diagonals
                                       ELSE {separation}
                           IN  UNION { CollideWith(
                                         [st EXCEPT !.ps = IF overlap > 0
                                                           THEN Separate(ps1, i, k, d, overlap)
                                                           ELSE ps1,
                                                    !.processed = @ \cup {pair_id},
                                                    !.cc = @ + 1,
                                                    !.calls = Append(@, pair_id)],
                                         i, nbrs, j + 1, decay) : d \in dirs }
                      ELSE CollideWith(st, i, nbrs, j + 1, decay)

\* lines 237-238: the outer loop from list position i on; each query is logged
\* with the ids of what it returned and of the particles in range at that moment
RECURSIVE CollideFrom(_, _, _, _)
CollideFrom(st, cs, i, decay) ==
    IF i > Len(st.ps) THEN {st}
    ELSE LET neighbors == get_neighbors(cs, st.ps[i])
             near == { st.ps[k].id : k \in { n \in 1..Len(st.ps) : InRange(st.ps, i, n) } }
             logged == [st EXCEPT !.queries =
                            Append(@, [p |-> st.ps[i].id,
                                       got |-> [n \in 1..Len(neighbors) |-> st.ps[neighbors[n]].id],
                                       near |-> near])]
         IN  UNION { CollideFrom(s, cs, i + 1, decay) :
                     s \in CollideWith(logged, i, neighbors, 1, decay) }

\* lines 235-263: processed = set(), then the two loops
Collisions(ps, cs, cc, decay) ==
    CollideFrom([ps |-> ps, processed |-> {}, cc |-> cc, calls |-> << >>,
                 queries |-> << >>], cs, 1, decay)

RECURSIVE SumEnergy(_, _)
SumEnergy(ps, i) == IF i > Len(ps) THEN 0 ELSE energy(ps[i]) + SumEnergy(ps, i + 1)

\* lines 266-277: the frame
Packet(ps, t, cc) ==
    [x |-> [i \in 1..Len(ps) |-> ps[i].position.x],
     y |-> [i \in 1..Len(ps) |-> ps[i].position.y],
     wavelength |-> [i \in 1..Len(ps) |-> ps[i].wavelength],
     count |-> Len(ps),
     tick |-> t,
     total_energy |-> SumEnergy(ps, 1),
     collisions |-> cc]

\* a variant of Publish whose test is off by one
PublishUpToLimit(q, packet) == IF Len(q) <= DATA_Q_LIMIT THEN Append(q, packet) ELSE q

\* lines 279-280: if data_q.qsize() < 2: data_q.put({'frame': packet})
Publish(q, packet) == IF Len(q) < DATA_Q_LIMIT THEN Append(q, packet) ELSE q

\* a variant of TickParams that reads the parameters as they were before the poll
ParamsBeforePoll(c) == tunable_params

\* the parameter set the tick reads at lines 208, 227-228 and 109: the dict as
\* the poll of this iteration left it; nothing else in the process writes it
TickParams(c) == c.tunable_params

\* ----------------------------------------------- the engine: one loop iteration
\* an iteration that ends at line 188: the poll, then time.sleep(0.1); continue
EngineIdle ==
    LET c == AfterPoll
    IN  /\ Idles(c.running)
        /\ param_q' = IF param_q = << >> THEN param_q ELSE Tail(param_q)
        /\ running' = c.running
        /\ beam_queue' = c.beam_queue
        /\ next_id' = c.next_id
        /\ collision_count' = c.collision_count
        /\ particles' = c.particles
        /\ tunable_params' = c.tunable_params
        /\ burst' = c.burst
        /\ calls' = << >>
        /\ queries' = << >>
        /\ reads' = NoReads
        /\ UNCHANGED << tick, cells, data_q, displayed, issued, sent, faults, horizon >>

\* an iteration that runs lines 190-283: the poll and one tick
EngineTick ==
    LET c == AfterPoll
        emits == Emits(c.beam_queue)
        tp == TickParams(c)
    IN  /\ ~Idles(c.running)
        /\ tick < horizon
        /\ \E draw \in (IF emits THEN Draws ELSE {[angle |-> 0, wavelength |-> 0]}) :
             LET emitted == IF emits
                            THEN Append(c.particles,
                                        Emitted(c.next_id, draw.angle, draw.wavelength))
                            ELSE c.particles
                 moved == MoveAll(emitted, tp.time_scale, tp.global_decay)
                 grid == Rebuild(cells, moved)
             IN  \E out \in Collisions(moved, grid, c.collision_count, tp.global_decay) :
                   /\ particles' = out.ps
                   /\ collision_count' = out.cc
                   /\ calls' = out.calls
                   /\ queries' = out.queries
                   /\ cells' = grid
                   /\ next_id' = IF emits THEN NextId(c.next_id) ELSE c.next_id
                   /\ beam_queue' = IF emits THEN BeamAfter(c.beam_queue) ELSE c.beam_queue
                   /\ issued' = IF emits THEN issued \cup {c.next_id} ELSE issued
                   /\ data_q' = Publish(data_q, Packet(out.ps, tick, out.cc))
        /\ param_q' = IF param_q = << >> THEN param_q ELSE Tail(param_q)
        /\ running' = c.running
        /\ tunable_params' = c.tunable_params
        /\ burst' = c.burst
        /\ tick' = tick + 1
        /\ reads' = [time_scale |-> tp.time_scale, wall_decay |-> tp.global_decay,
                    collision_decay |-> tp.global_decay]
        /\ UNCHANGED << displayed, sent, faults, horizon >>

\* ----------------------------------------------- the collaborators
\* the control surface puts a message on the control channel
Send ==
    /\ Len(param_q) < MaxQueue
    /\ sent < MaxSent
    /\ \E m \in Msgs : param_q' = Append(param_q, m)
    /\ sent' = sent + 1
    /\ UNCHANGED << running, beam_queue, next_id, tick, collision_count, particles,
                    tunable_params, cells, data_q, displayed, calls, queries,
                    burst, issued, reads, faults, horizon >>

\* what update keeps of a frame for the statistics line, and the frame's tick
Shown(frame) == [tick |-> frame.tick, count |-> frame.count, collisions |-> frame.collisions]

\* a variant of Latest that keeps the first frame removed
Earliest(q) == q[1]

\* lines 121-124: data after the while loop, the last frame removed
Latest(q) == q[Len(q)]

\* visualizer.update: every buffered frame is removed, the last one is shown
Update ==
    /\ data_q # << >>
    /\ displayed' = Shown(Latest(data_q))
    /\ data_q' = << >>
    /\ UNCHANGED << running, beam_queue, next_id, tick, collision_count, particles,
                    tunable_params, cells, param_q, calls, queries, burst, issued, sent,
                    reads, faults, horizon >>

Next == EngineIdle \/ EngineTick \/ Send \/ Update

Spec == Init /\ [][Next]_vars

\* ----------------------------------------------- a session with large time scales
\* The control surface has queued its messages before the engine's first poll:
\* a burst of four at time_scale 8.0, then a last tick at a time scale that
\* carries the first three particles into the right wall.
LastTimeScales == {80, 2200, 2243}
GridScripts == { << Params(4, Absent, 80), Command("FIRE"), Command("START"),
                    Command("START"), Params(Absent, Absent, t) >> : t \in LastTimeScales }

InitGrid == InitEngine /\ param_q \in GridScripts /\ sent = MaxSent - 1 /\ horizon = MaxTick

SpecGrid == InitGrid /\ [][Next]_vars

\* ----------------------------------------------- an iteration that raises
MaxFaults == 1

\* the steps of an iteration at which the error is raised: in the command
\* branch at int(...) of FIRE (line 173), in tunable_params.update (line 182),
\* in the emission before the append (192-201), in the movement loop (211-228),
\* at the first neighbor query (238), at the export (266-280)
FaultStages == { "command", "params", "emission", "integration", "collision", "export" }

\* the locals after the poll of an iteration that raises at stage: nothing of
\* the message is applied before line 173 raises, the command but not the
\* params before line 182 raises, the whole message otherwise
PolledBefore(stage) ==
    CASE stage = "command" -> Control
      [] stage = "params" -> ApplyCommand(Control, Oldest(param_q).command)
      [] OTHER -> AfterPoll

\* whether the iteration can raise at stage
CanRaise(stage, c) ==
    CASE stage = "command" -> param_q # << >> /\ Oldest(param_q).command = "FIRE"
      [] stage = "params" -> param_q # << >> /\ Oldest(param_q).has_params
      [] stage = "emission" -> ~Idles(c.running) /\ Emits(c.beam_queue)
      [] stage = "export" -> ~Idles(c.running)
      [] OTHER -> ~Idles(c.running) /\ (Emits(c.beam_queue) \/ c.particles # << >>)

\* the particle list when the movement loop raises at the particle after the
\* k-th: the first k have moved
MovedUpTo(ps, k, t_scale, decay) ==
    [i \in 1..Len(ps) |-> IF i <= k THEN Move(ps[i], t_scale, decay) ELSE ps[i]]

\* lines 285-287: the error is caught where it is raised, whatever the
\* iteration has done so far stays done, tick += 1 is not reached, and the loop
\* goes on after time.sleep(1)
EngineFault ==
    /\ faults < MaxFaults
    /\ \E stage \in FaultStages :
         LET c == PolledBefore(stage)
             tp == TickParams(c)
             inTick == stage \in { "integration", "collision", "export" }
             emits == inTick /\ Emits(c.beam_queue)
         IN  /\ CanRaise(stage, c)
             /\ \E draw \in (IF emits THEN Draws ELSE {[angle |-> 0, wavelength |-> 0]}) :
                  LET emitted == IF emits
                                 THEN Append(c.particles,
                                             Emitted(c.next_id, draw.angle, draw.wavelength))
                                 ELSE c.particles
                  IN  \E k \in (IF stage = "integration" THEN 0..(Len(emitted) - 1)
                                ELSE {Len(emitted)}) :
                        LET moved == IF inTick
                                     THEN MovedUpTo(emitted, k, tp.time_scale, tp.global_decay)
                                     ELSE emitted
                            grid == IF stage \in { "collision", "export" }
                                    THEN Rebuild(cells, moved) ELSE cells
                            idle == { [ps |-> moved, cc |-> c.collision_count,
                                       calls |-> << >>, queries |-> << >>] }
                        IN  \E out \in (IF stage = "export"
                                        THEN Collisions(moved, grid, c.collision_count,
                                                        tp.global_decay)
                                        ELSE idle) :
                              /\ particles' = out.ps
                              /\ collision_count' = out.cc
                              /\ calls' = out.calls
                              /\ queries' = out.queries
                              /\ cells' = grid
                              /\ next_id' = IF emits THEN NextId(c.next_id) ELSE c.next_id
                              /\ beam_queue' = IF emits THEN BeamAfter(c.beam_queue)
                                               ELSE c.beam_queue
                              /\ issued' = IF emits THEN issued \cup {c.next_id} ELSE issued
             /\ running' = c.running
             /\ tunable_params' = c.tunable_params
             /\ burst' = c.burst
    /\ param_q' = IF param_q = << >> THEN param_q ELSE Tail(param_q)
    /\ reads' = NoReads
    /\ faults' = faults + 1
    /\ UNCHANGED << tick, data_q, displayed, sent, horizon >>

NextFault == Next \/ EngineFault

\* The control surface has queued its messages before the engine's first poll:
\* parameters, a burst of two, a stop and a start.
FaultScripts == { << Params(2, 10, 20), Command("FIRE"), Command("STOP"), Command("START") >>,
                  << Command("FIRE"), Params(1, Absent, 20), Command("FIRE") >> }

InitFault == InitEngine /\ param_q \in FaultScripts /\ sent = MaxSent - 1 /\ horizon = MaxTick

SpecFault == InitFault /\ [][NextFault]_vars

\* ----------------------------------------------- the resolver on its own
\* directions of flight, as velocities of magnitude SPEED_OF_LIGHT
Directions == { Vector2D(20000, 0), Vector2D(-20000, 0), Vector2D(0, 20000), Vector2D(0, -20000),
                Vector2D(14142, 14142), Vector2D(-14142, 14142),
                Vector2D(14142, -14142), Vector2D(-14142, -14142) }

\* where the second particle lies relative to the first: on its right, above
\* it, on a diagonal, and at the same point
Offsets == { Vector2D(10 * PosScale, 0), Vector2D(0, 10 * PosScale),
             Vector2D(7 * PosScale, 7 * PosScale), Vector2D(0, 0) }

Wavelengths == { 400 * EnScale, 700 * EnScale }

Decays == { 0, 10 }

\* a particle that takes no part in the call
Bystander == PhotonLikeParticle(2, Vector2D(400 * PosScale, 100 * PosScale),
                                Vector2D(0, 20000), 500 * EnScale)

\* two particles in collision range in the middle of the field, and a third
\* one far from them
Pairs == { << PhotonLikeParticle(0, Vector2D(100 * PosScale, 300 * PosScale), d1, w1),
              PhotonLikeParticle(1, VAdd(Vector2D(100 * PosScale, 300 * PosScale), off), d2, w2),
              Bystander >> :
           d1 \in Directions, d2 \in Directions, off \in Offsets,
           w1 \in Wavelengths, w2 \in Wavelengths }

\* the engine in the middle of a run, before line 253 of an iteration
MidRun ==
    /\ running = TRUE
    /\ beam_queue = 0
    /\ tick = 0
    /\ collision_count = 0
    /\ cells = GridClear(<< >>)
    /\ param_q = << >>
    /\ data_q = << >>
    /\ displayed = NoFrame
    /\ calls = << >>
    /\ queries = << >>
    /\ burst = NoBurst
    /\ reads = NoReads
    /\ faults = 0
    /\ sent = 0

InitResolve ==
    /\ MidRun
    /\ horizon = 0
    /\ particles \in Pairs
    /\ next_id = 3
    /\ issued = { 0, 1, 2 }
    /\ \E d \in Decays : tunable_params = [photon_count |-> 200, global_decay |-> d,
                                           time_scale |-> 1 * TsScale]

\* one call resolve_relativistic_collision(p1, p2) on the first two particles
\* of the list (line 253): the two objects are mutated in place
ResolveCall ==
    /\ calls = << >>
    /\ Len(particles) >= 2
    /\ LET r == resolve_relativistic_collision(particles[1], particles[2],
                                               tunable_params.global_decay)
       IN  particles' = [particles EXCEPT ![1] = r[1], ![2] = r[2]]
    /\ calls' = << << particles[1].id, particles[2].id >> >>
    /\ UNCHANGED << running, beam_queue, next_id, tick, collision_count, tunable_params,
                    cells, param_q, data_q, displayed, queries, burst, issued, sent,
                    reads, faults, horizon >>

SpecResolve == InitResolve /\ [][ResolveCall]_vars

\* ----------------------------------------------- the range of a float
\* wavelength and energy are Python floats (IEEE doubles).  Where their range
\* matters they are modelled as decimal floats m * 10^e with a mantissa of four
\* digits, 1000 <= m <= 9999; FInf is float('inf') and FZero is 0.0.  The
\* greatest double is 1.797e308; a positive result below half the least
\* subnormal 4.94e-324 is 0.0.
FLOAT_MAX_MANT == 1797
FLOAT_MAX_EXP == 305
FLOAT_MIN_MANT == 2470
FLOAT_MIN_EXP == -327

FZero == [m |-> 0, e |-> 0]
FInf == [m |-> 1000, e |-> FLOAT_MAX_EXP + 4]
FOne == [m |-> 1000, e |-> -3]
Float(n) == [m |-> n * 10, e |-> -1]

\* the double nearest to m * 10^e for a mantissa already in 1000..9999
FRange(m, e) ==
    IF e > FLOAT_MAX_EXP \/ (e = FLOAT_MAX_EXP /\ m > FLOAT_MAX_MANT) THEN FInf
    ELSE IF e < FLOAT_MIN_EXP \/ (e = FLOAT_MIN_EXP /\ m < FLOAT_MIN_MANT) THEN FZero
    ELSE [m |-> m, e |-> e]

RECURSIVE FNorm(_, _)
FNorm(m, e) ==
    IF m >= 10000 THEN FNorm(m \div 10, e + 1)
    ELSE IF m < 1000 THEN FNorm(m * 10, e - 1)
    ELSE FRange(m, e)

FLess(a, b) == IF a.m = 0 \/ b.m = 0 THEN a.m < b.m
               ELSE a.e < b.e \/ (a.e = b.e /\ a.m < b.m)

FMax(a, b) == IF FLess(a, b) THEN b ELSE a

\* x * (num / den) for 0 < num < den <= 200
FTimes(x, num, den) ==
    IF x.m = 0 \/ x = FInf THEN x
    ELSE FNorm((x.m * num * 1000) \div den, x.e - 3)

\* 100000.0 / x for x > 0
FRecipK(x) ==
    IF x = FInf THEN FZero
    ELSE FNorm(100000000 \div x.m, (-x.e) - 3)

\* property energy (line 40) on floats: 100000.0 / max(1.0, wavelength)
energy_float(p) == FRecipK(FMax(FOne, p.wavelength))

\* set_energy (lines 47-51) on floats
set_energy_float(p, new_energy) ==
    [p EXCEPT !.wavelength = FRecipK(IF new_energy.m <= 0 THEN FOne ELSE new_energy)]

\* lines 227-228 for a particle that reached a wall:
\* p.set_energy(p.energy * (1.0 - decay * 0.5)) when decay > 0
DecayAtWall(p, decay) ==
    IF decay > 0
    THEN set_energy_float(p, FTimes(energy_float(p), 2 * DecayScale - decay, 2 * DecayScale))
    ELSE p

\* wavelengths an emission can draw (line 201), as floats
EmittedWavelengths == { Float(400), Float(550), Float(700) }

WallDecays == { 10, 50, 99 }

\* one particle in a run, flying between two facing walls
InitDecay ==
    /\ MidRun
    /\ horizon = 0
    /\ next_id = 1
    /\ issued = { 0 }
    /\ \E w \in EmittedWavelengths :
          particles = << PhotonLikeParticle(0, Vector2D(50 * PosScale, 300 * PosScale),
                                            Vector2D(SPEED_OF_LIGHT, 0), w) >>
    /\ \E d \in WallDecays : tunable_params = [photon_count |-> 1, global_decay |-> d,
                                               time_scale |-> 1 * TsScale]

\* the particle reaches a wall: its velocity is reversed (lines 215-217 and
\* 221-223) and its energy is decayed (227-228)
WallBounce ==
    /\ particles # << >>
    /\ particles' = [i \in 1..Len(particles) |->
                        [DecayAtWall(particles[i], tunable_params.global_decay)
                            EXCEPT !.velocity = Vector2D(-particles[i].velocity.x,
                                                         particles[i].velocity.y)]]
    /\ UNCHANGED << running, beam_queue, next_id, tick, collision_count, tunable_params,
                    cells, param_q, data_q, displayed, calls, queries, burst, issued, sent,
                    reads, faults, horizon >>

SpecDecay == InitDecay /\ [][WallBounce]_vars

\* ----------------------------------------------- movement and walls on their own
\* positions before the integration: 2.2 and 4 beyond the left inset bound,
\* mid-field, 3.2 and 2.2 before the right one; the same for the y axis
NearWallX == { 1020, 1200, 400 * PosScale, 78880, 78980 }
NearWallY == { 1020, 300 * PosScale, 58980 }

InitMove ==
    /\ MidRun
    /\ horizon = 0
    /\ next_id = 3
    /\ issued = { 0, 2 }
    /\ \E x \in NearWallX, y \in NearWallY, d \in Directions :
          particles = << PhotonLikeParticle(0, Vector2D(x, y), d, 400 * EnScale), Bystander >>
    /\ \E d \in Decays : tunable_params = [photon_count |-> 200, global_decay |-> d,
                                           time_scale |-> 1 * TsScale]

\* lines 208-228 of an iteration: the movement loop with its wall handling,
\* before the grid is rebuilt
MoveStep ==
    /\ running
    /\ reads = NoReads
    /\ particles' = MoveAll(particles, tunable_params.time_scale, tunable_params.global_decay)
    /\ reads' = [time_scale |-> tunable_params.time_scale,
                 wall_decay |-> tunable_params.global_decay, collision_decay |-> Absent]
    /\ UNCHANGED << running, beam_queue, next_id, tick, collision_count, tunable_params,
                    cells, param_q, data_q, displayed, calls, queries, burst, issued, sent,
                    faults, horizon >>

SpecMove == InitMove /\ [][MoveStep]_vars

\* ----------------------------------------------- the head-on scenario
\* ticks of the scenario: enough for both particles to come back from the walls
HeadOnTicks == 250

\* x of the left particle: mid-field, near the emission point, near the wall
HeadOnStarts == { 388 * PosScale, 100 * PosScale, 30 * PosScale }

\* wavelengths 400 and 700, 3 * COLLISION_RADIUS apart on the line y = 300,
\* flying straight towards each other
HeadOnPair(x) ==
    << PhotonLikeParticle(0, Vector2D(x, START_Y), Vector2D(SPEED_OF_LIGHT, 0), 400 * EnScale),
       PhotonLikeParticle(1, Vector2D(x + 3 * COLLISION_RADIUS, START_Y),
                          Vector2D(-SPEED_OF_LIGHT, 0), 700 * EnScale) >>

InitHeadOn ==
    /\ MidRun
    /\ horizon = HeadOnTicks
    /\ next_id = 2
    /\ issued = { 0, 1 }
    /\ \E x \in HeadOnStarts : particles = HeadOnPair(x)
    /\ \E t \in { 1 * TsScale, 2 * TsScale } :
          tunable_params = [photon_count |-> 200, global_decay |-> 0, time_scale |-> t]

SpecHeadOn == InitHeadOn /\ [][EngineTick]_vars

\* ----------------------------------------------- the engine loop under fair scheduling
\* what the control surface sends in the session checked for progress: the
\* run-state commands, CLEAR and a parameter message; the field stays empty
LiveMsgs == { Command("START"), Command("STOP"), Command("CLEAR"), Params(1, Absent, 20) }

\* the control surface puts a message while the ticks left before the horizon
\* suffice to poll every message on the channel: an iteration polls one message
\* and only a running iteration advances tick
SendInTime ==
    /\ Len(param_q) < MaxQueue
    /\ sent < MaxSent
    /\ Len(param_q) < horizon - tick
    /\ \E m \in LiveMsgs : param_q' = Append(param_q, m)
    /\ sent' = sent + 1
    /\ UNCHANGED << running, beam_queue, next_id, tick, collision_count, particles,
                    tunable_params, cells, data_q, displayed, calls, queries, burst,
                    issued, reads, faults, horizon >>

\* one iteration of while True (line 161): it idles, runs a tick or raises
Iteration == EngineIdle \/ EngineTick \/ EngineFault

NextLive == Iteration \/ SendInTime \/ Update

\* the engine is a process of its own (simulation_app.py line 38) whose loop
\* only sleeps between iterations: an iteration that can be taken is taken
SpecLive == Init /\ [][NextLive]_vars /\ WF_vars(Iteration)

\* ----------------------------------------------- messages with both fields
\* sessions whose messages carry a command and params together: a FIRE with a
\* new photon_count, decay and time scale after a parameter message, two such
\* FIRE messages in a row, and a STOP with params between START and FIRE
OrderScripts == { << Params(2, Absent, Absent), CommandParams("FIRE", 1, 10, 20), Command("FIRE") >>,
                  << CommandParams("FIRE", 2, 10, 20), CommandParams("FIRE", 1, 5, 10) >>,
                  << Command("START"), CommandParams("STOP", 2, 10, 20), Command("FIRE") >> }

InitOrder == InitEngine /\ param_q \in OrderScripts /\ sent = MaxSent - 1 /\ horizon = MaxTick

SpecOrder == InitOrder /\ [][Next]_vars

\* ----------------------------------------------- properties
\* an engine iteration that polled a message
PollStep == param_q # << >> /\ param_q' = Tail(param_q)
PolledCommand == Head(param_q).command
ClearPolled == PollStep /\ PolledCommand = "CLEAR"

\* an engine iteration that ran a tick
TickStep == tick' # tick

Last(q) == q[Len(q)]

\* C1: a running tick appends its frame to the data channel only if the channel
\* holds fewer than 2 frames, and otherwise leaves the channel as it is; the tick
\* counter advances either way, and the channel never holds more than 2 frames.
C1_Backpressure ==
    [][/\ Len(data_q') <= 2
       /\ TickStep =>
            /\ tick' = tick + 1
            /\ IF Len(data_q) < 2
               THEN /\ Len(data_q') = Len(data_q) + 1
                    /\ SubSeq(data_q', 1, Len(data_q)) = data_q
                    /\ Last(data_q').tick = tick
               ELSE data_q' = data_q]_vars

\* a frame has been dropped: the channel is full and the frame of the last tick
\* is not in it
C1_Witness == Len(data_q) = 2 /\ data_q[2].tick < tick - 1

\* C2: after a FIRE processed with an empty particle list and id counter 0, for
\* a burst of n, the particle count after k running ticks (the tick of the FIRE
\* included) is min(k, n), the ids are 0..count-1 in order, and the beam queue
\* holds the rest of the burst.
C2_BurstEmission ==
    (burst # NoBurst /\ burst.base = 0 /\ burst.first_id = 0) =>
        LET k == Min(tick - burst.t0, burst.n)
        IN  /\ Len(particles) = k
            /\ \A i \in 1..Len(particles) : particles[i].id = i - 1
            /\ beam_queue = burst.n - k

\* a burst of 2 is complete and a further tick has emitted nothing
C2_Witness ==
    /\ burst # NoBurst /\ burst.base = 0 /\ burst.first_id = 0 /\ burst.n = 2
    /\ tick - burst.t0 >= 3
    /\ Len(particles) = 2

\* C3: an iteration that polls CLEAR ends with no particle, collision counter 0,
\* id counter 0 and no burst queued, in either run state, so a second CLEAR
\* changes none of them; and an emitted particle takes the id counter as its id.
C3_ClearResets ==
    [][/\ ClearPolled =>
            /\ particles' = << >>
            /\ collision_count' = 0
            /\ next_id' = 0
            /\ beam_queue' = 0
            /\ running' = running
            /\ tunable_params' = tunable_params
       /\ Len(particles') > Len(particles) => Last(particles').id = next_id]_vars

\* a CLEAR has removed particles that had collided
C3_Witness == issued # {} /\ particles = << >> /\ next_id = 0 /\ collision_count = 0
              /\ \E i \in 1..Len(data_q) : data_q[i].collisions > 0

\* C4 as claimed: a newly emitted particle receives an id greater than every id
\* given earlier in the run.
C4_IdsNeverReused ==
    [][Len(particles') > Len(particles) =>
            \A used \in issued : Last(particles').id > used]_vars

\* C4 as amended: the ids of the particles in the list increase strictly in list
\* order and lie below the id counter; a newly emitted particle joins the end of
\* the list; and the id counter goes down only at a CLEAR, to 0, with the list
\* emptied.
C4_IdsUniqueInList ==
    [][/\ \A i, j \in 1..Len(particles') :
            i < j => particles'[i].id < particles'[j].id
       /\ \A i \in 1..Len(particles') : particles'[i].id < next_id'
       /\ Len(particles') > Len(particles) =>
            /\ Len(particles') = Len(particles) + 1
            /\ \A i \in 1..Len(particles) : particles'[i].id = particles[i].id
       /\ next_id' < next_id => ClearPolled /\ next_id' = 0 /\ particles' = << >>]_vars

\* a particle was emitted after a CLEAR had removed two
C4_Witness == Len(particles) >= 1 /\ Cardinality(issued) > Len(particles)

\* C5: in one tick the resolver is handed no unordered id pair twice and no pair
\* of a particle with itself, and the collision counter grows by the number of
\* resolver calls.
C5_PairsOnce ==
    [][TickStep =>
            /\ \A m, n \in 1..Len(calls') :
                 m # n => {calls'[m][1], calls'[m][2]} # {calls'[n][1], calls'[n][2]}
            /\ \A n \in 1..Len(calls') : calls'[n][1] # calls'[n][2]
            /\ collision_count' = (IF ClearPolled THEN 0 ELSE collision_count) + Len(calls')]_vars

\* two pairs were resolved, one of them returned by the queries of both its members
C5_Witness ==
    /\ Len(calls) >= 2
    /\ \E c \in 1..Len(calls), m, n \in 1..Len(queries) :
         /\ queries[m].p = calls[c][1]
         /\ \E j \in 1..Len(queries[m].got) : queries[m].got[j] = calls[c][2]
         /\ queries[n].p = calls[c][2]
         /\ \E j \in 1..Len(queries[n].got) : queries[n].got[j] = calls[c][1]

\* C6: every neighbor query returns every particle that is within collision
\* range (distance < 2 x COLLISION_RADIUS) of the querying particle at the moment
\* of the query.
C6_NeighborsComplete ==
    \A n \in 1..Len(queries) :
        \A k \in queries[n].near : \E j \in 1..Len(queries[n].got) : queries[n].got[j] = k

\* the (bucket, slot) places of a grid
GridRefs(cs) == UNION { { <<k, j>> : j \in 1..Len(cs[k]) } : k \in DOMAIN cs }

\* C7: the grid a tick leaves behind, which is the grid its neighbor queries
\* read, holds every particle of the current list in exactly one place and
\* holds nothing else; every reference a query returns is a current particle.
C7_GridFresh ==
    [][TickStep =>
            /\ \A i \in 1..Len(particles') :
                 Cardinality({ r \in GridRefs(cells') : cells'[r[1]][r[2]] = i }) = 1
            /\ \A r \in GridRefs(cells') : cells'[r[1]][r[2]] \in 1..Len(particles')
            /\ \A n \in 1..Len(queries') : \A j \in 1..Len(queries'[n].got) :
                 \E i \in 1..Len(particles') : particles'[i].id = queries'[n].got[j]]_vars

\* a tick has queried the grid after a CLEAR removed more particles than the
\* list holds now
C7_Witness == queries # << >> /\ Cardinality(issued) > Len(particles)

\* C8: the engine starts Stopped; a polled START or FIRE makes it Running, a
\* polled STOP makes it Stopped, and nothing else changes the run state.
C8_RunState ==
    /\ ~running
    /\ [][running' = IF PollStep
                     THEN CASE PolledCommand \in {"START", "FIRE"} -> TRUE
                            [] PolledCommand = "STOP" -> FALSE
                            [] OTHER -> running
                     ELSE running]_vars

\* the engine has run and is Stopped again
C8_Witness == ~running /\ tick > 0 /\ param_q = << >>

\* C9: an iteration that ends Stopped advances no tick, enqueues no frame,
\* emits nothing, leaves the grid alone, and leaves particles, counters and beam
\* queue as they were unless it polled CLEAR; a frame is enqueued and a particle
\* is emitted only in an iteration that ends Running.
C9_StoppedIdles ==
    [][/\ ~running' =>
            /\ tick' = tick
            /\ Len(data_q') <= Len(data_q)
            /\ cells' = cells
            /\ IF ClearPolled
               THEN particles' = << >> /\ collision_count' = 0
                    /\ next_id' = 0 /\ beam_queue' = 0
               ELSE particles' = particles /\ collision_count' = collision_count
                    /\ next_id' = next_id /\ beam_queue' = beam_queue
       /\ Len(data_q') > Len(data_q) => running'
       /\ Len(particles') > Len(particles) => running']_vars

\* the engine was stopped in the middle of a burst
C9_Witness == ~running /\ tick > 0 /\ beam_queue > 0 /\ particles # << >>

\* C10: a step removes at most the oldest message of the control channel or
\* adds one at its end; the run state and the parameters after a poll are those
\* the oldest message asks for; and an iteration on an empty channel leaves run
\* state and parameters alone and changes the beam queue only by an emission.
C10_ControlChannel ==
    [][/\ \/ param_q' = param_q
          \/ PollStep
          \/ \E m \in Msgs : param_q' = Append(param_q, m)
       /\ PollStep =>
            LET m == Head(param_q)
            IN  /\ running' = CASE m.command \in {"START", "FIRE"} -> TRUE
                                [] m.command = "STOP" -> FALSE
                                [] OTHER -> running
                /\ tunable_params' =
                     IF m.has_params
                     THEN [f \in DOMAIN tunable_params |->
                             IF m[f] = Absent THEN tunable_params[f] ELSE m[f]]
                     ELSE tunable_params
       /\ (param_q = << >> /\ param_q' = << >>) =>
            /\ running' = running
            /\ tunable_params' = tunable_params
            /\ beam_queue' \in {beam_queue, beam_queue - 1}
            /\ tick' # tick => tick' = tick + 1]_vars

\* two messages waited in the channel together and both have been applied in
\* order, and a tick ran on the empty channel
C10_Witness ==
    /\ sent >= 2 /\ param_q = << >> /\ tick >= 2
    /\ tunable_params.photon_count = 2 /\ burst # NoBurst /\ burst.n = 2

\* C11: the time scale and the decay a tick reads, at integration, at the wall
\* energy loss and in the resolver, are the values of the parameter set as the
\* poll of that iteration left it; the parameter set changes only by a polled
\* message that carries params, never by a message being sent.
C11_ParamsAtTickBoundary ==
    [][/\ TickStep =>
            /\ reads'.time_scale = tunable_params'.time_scale
            /\ reads'.wall_decay = tunable_params'.global_decay
            /\ reads'.collision_decay = tunable_params'.global_decay
       /\ tunable_params' # tunable_params => PollStep /\ Head(param_q).has_params
       /\ (\E m \in Msgs : param_q' = Append(param_q, m)) =>
            tunable_params' = tunable_params /\ reads' = reads]_vars

\* a tick has run with a time scale and a decay that a message brought, with a
\* particle in flight and another message waiting
C11_Witness ==
    /\ reads # NoReads /\ reads.time_scale = 20 /\ reads.wall_decay = 10
    /\ particles # << >> /\ param_q # << >>

\* an iteration that raised and was caught
FaultStep == faults' # faults

\* C12 as claimed: after an iteration that raised, the particle list and the
\* parameter set are what they were when the iteration began.
C12_FaultPreservesState ==
    [][FaultStep => particles' = particles /\ tunable_params' = tunable_params]_vars

\* an error has been caught, and afterwards a message was polled and a tick ran
C12_Witness == faults = 1 /\ tick > 0 /\ reads # NoReads /\ sent = MaxSent /\ param_q = << >>

\* a step that is one call of the resolver
ResolverStep == calls = << >> /\ calls' # << >> /\ tick' = tick /\ faults' = faults

\* C13 as claimed: with global_decay = 0 the sum of the two energies read back
\* after a resolver call equals the sum before it.  The energies of the model
\* are multiples of 0.01 and a wavelength written by set_energy and read back
\* by energy is rounded twice, so the claimed bound of 0.01 is taken as five
\* hundredths.
C13_EnergyConserved ==
    [][(ResolverStep /\ tunable_params.global_decay = 0) =>
            Abs((energy(particles'[1]) + energy(particles'[2]))
                - (energy(particles[1]) + energy(particles[2]))) < 5]_vars

\* two particles of energy 250 each met exactly head-on: one is left with 500,
\* the other with the energy 1.0 that set_energy puts in place of 0
C13_Witness ==
    /\ calls # << >> /\ tick = 0 /\ horizon = 0
    /\ tunable_params.global_decay = 0
    /\ energy(particles[1]) = 500 * EnScale
    /\ energy(particles[2]) = 1 * EnScale
    /\ particles[1].velocity = Vector2D(-SPEED_OF_LIGHT, 0)

\* C19 as claimed: with global_decay = 0, a resolver call on two particles of
\* equal energy leaves each particle with the energy it had (within the five
\* hundredths of the model's rounding).
C19_EqualEnergiesNoTransfer ==
    [][(/\ ResolverStep
        /\ tunable_params.global_decay = 0
        /\ energy(particles[1]) = energy(particles[2])) =>
            /\ Abs(energy(particles'[1]) - energy(particles[1])) < 5
            /\ Abs(energy(particles'[2]) - energy(particles[2])) < 5]_vars

\* two particles of energy 250 each, one flying along the axis and the other
\* across it: the call leaves 375 and 125
C19_Witness ==
    /\ calls # << >> /\ tick = 0 /\ horizon = 0
    /\ tunable_params.global_decay = 0
    /\ energy(particles[1]) = 375 * EnScale
    /\ energy(particles[2]) = 125 * EnScale

\* C20: a resolver call changes nothing but the velocity and the wavelength of
\* its two particles: their ids and positions, every other particle, the length
\* of the list, the grid, the parameter set, the counters and the queues are
\* as before.
C20_ResolverFrame ==
    [][ResolverStep =>
            /\ Len(particles') = Len(particles)
            /\ \A i \in 1..Len(particles) :
                   /\ particles'[i].id = particles[i].id
                   /\ particles'[i].position = particles[i].position
                   /\ i > 2 => particles'[i] = particles[i]
            /\ cells' = cells
            /\ tunable_params' = tunable_params
            /\ << collision_count, tick, next_id, beam_queue, running >>
                   = << collision_count', tick', next_id', beam_queue', running' >>
            /\ << param_q, data_q, displayed >> = << param_q', data_q', displayed' >>]_vars

\* after a call that reversed the first particle and changed its wavelength,
\* both particles are where they were and the third particle is as it was
C20_Witness ==
    /\ calls = << << 0, 1 >> >> /\ horizon = 0
    /\ particles[1].velocity = Vector2D(-SPEED_OF_LIGHT, 0)
    /\ particles[1].wavelength \notin Wavelengths
    /\ particles[2].wavelength \notin Wavelengths
    /\ particles[1].position = Vector2D(100 * PosScale, 300 * PosScale)
    /\ particles[2].position = Vector2D(110 * PosScale, 300 * PosScale)
    /\ particles[3] = Bystander

\* C14 as claimed: every particle has wavelength > 0 and energy > 0 in every
\* state, whatever the number of wall bounces and the decay.
C14_WavelengthEnergyPositive ==
    \A i \in 1..Len(particles) :
        /\ FLess(FZero, particles[i].wavelength)
        /\ FLess(FZero, energy_float(particles[i]))

\* the particle whose wavelength has become float('inf')
C14_Witness ==
    /\ particles # << >>
    /\ horizon = 0
    /\ particles[1].wavelength = FInf
    /\ energy_float(particles[1]) = FZero

\* set_energy called with the energy 0.0 of that particle: wavelength K / 1.0
C14_ClampWitness ==
    /\ particles # << >>
    /\ horizon = 0
    /\ particles[1].wavelength = FRecipK(FOne)
    /\ particles[1].wavelength = [m |-> 1000, e |-> 2]
    /\ energy_float(particles[1]) = FOne

\* a step that is the movement loop of an iteration and nothing after it
MovementStep == reads = NoReads /\ reads' # NoReads /\ reads'.collision_decay = Absent

\* the coordinate v and velocity component c after the wall handling of one
\* axis with the inset bounds lo and hi, as the claim states it
WallHandled(v, c, lo, hi, nv, nc) ==
    IF v <= lo \/ v >= hi
    THEN nc = -c /\ lo <= nv /\ nv <= hi /\ nv = (IF v <= lo THEN lo ELSE hi)
    ELSE nv = v /\ nc = c

\* C17: for every particle and each axis, a coordinate that the integration
\* put at or beyond an inset bound is clamped into the inset range and the
\* velocity component of that axis changes sign; any other coordinate and
\* component are as the integration left them; after the movement loop every
\* particle lies inside the inset bounds.
C17_WallHandling ==
    [][MovementStep =>
         \A i \in 1..Len(particles) :
            /\ WallHandled(Integrate(particles[i], tunable_params.time_scale).x,
                           particles[i].velocity.x,
                           COLLISION_RADIUS, ENV_W - COLLISION_RADIUS,
                           particles'[i].position.x, particles'[i].velocity.x)
            /\ WallHandled(Integrate(particles[i], tunable_params.time_scale).y,
                           particles[i].velocity.y,
                           COLLISION_RADIUS, ENV_H - COLLISION_RADIUS,
                           particles'[i].position.y, particles'[i].velocity.y)
            /\ particles'[i].position.x \in COLLISION_RADIUS..(ENV_W - COLLISION_RADIUS)
            /\ particles'[i].position.y \in COLLISION_RADIUS..(ENV_H - COLLISION_RADIUS)]_vars

\* the particle that the integration put at x = R - 1 (from x = R + 2.2 with
\* velocity (-200, 0)): it is at x = R and flies to the right
C17_Witness ==
    /\ reads # NoReads /\ reads.collision_decay = Absent
    /\ particles[1].position = Vector2D(COLLISION_RADIUS, 300 * PosScale)
    /\ particles[1].velocity = Vector2D(SPEED_OF_LIGHT, 0)

\* C15: at the end of every tick every particle flies at SPEED_OF_LIGHT.
\* Velocities are multiples of 0.01 built from unit vectors with four decimal
\* places, so the speed is compared within 0.03 (the spec's tolerance is
\* relative 1e-6 on floats).
C15_SpeedInvariant ==
    \A i \in 1..Len(particles) :
        Abs(Magnitude(particles[i].velocity) - SPEED_OF_LIGHT) <= 3

\* a tick has ended with a recorded collision, a particle flying back from the
\* right wall and a particle emitted in that very tick
C15_Witness ==
    /\ tick > 0
    /\ collision_count > 0
    /\ \E i \in 1..Len(particles) : particles[i].velocity.x < 0
    /\ \E i \in 1..Len(particles) :
          particles[i].position.x >= ENV_W - 2 * CELL_SIZE /\ particles[i].velocity.x < 0
    /\ Len(particles) >= 3

\* a step in which the consumer has read the data channel
UpdateStep == displayed' # displayed \/ Len(data_q') < Len(data_q)

\* C18: an update that reads the data channel removes every frame buffered and
\* displays the last one removed; the frames in the channel carry strictly
\* increasing ticks, all greater than the displayed one, so the tick of the
\* displayed frame never decreases, whatever the interleaving of ticks and
\* updates.
C18_LatestFrameWins ==
    [][/\ UpdateStep =>
            /\ data_q # << >>
            /\ data_q' = << >>
            /\ displayed' = Shown(Last(data_q))
            /\ \A k \in 1..Len(data_q) : data_q[k].tick <= displayed'.tick
       /\ displayed'.tick >= displayed.tick
       /\ \A k \in 1..Len(data_q') :
            /\ data_q'[k].tick > displayed'.tick
            /\ k > 1 => data_q'[k].tick > data_q'[k - 1].tick]_vars

\* four ticks have run and the frames of ticks 2 and 3 were never enqueued, so
\* the channel held the frames of ticks 0 and 1 together; an update has removed
\* both and the frame of tick 1 is displayed
C18_Witness == tick = 4 /\ data_q = << >> /\ displayed.tick = 1 /\ displayed.count >= 1

\* the two particles of the scenario are closer than 2 * COLLISION_RADIUS
\* once ps has been moved by one tick
MeetsAfterMove(ps) ==
    Abs(Integrate(ps[1], tunable_params.time_scale).x
        - Integrate(ps[2], tunable_params.time_scale).x) < 2 * COLLISION_RADIUS

\* the first contact of the scenario: while the counter is 0 a tick leaves it
\* at 0 unless the movement brings the two particles closer than
\* 2 * COLLISION_RADIUS, and then the counter becomes 1 and both velocities are
\* reversed
FirstContact ==
    (TickStep /\ collision_count = 0) =>
        IF MeetsAfterMove(particles)
        THEN /\ collision_count' = 1
             /\ particles'[1].velocity = Vector2D(-particles[1].velocity.x, 0)
             /\ particles'[2].velocity = Vector2D(-particles[2].velocity.x, 0)
        ELSE /\ collision_count' = 0
             /\ particles'[1].velocity = particles[1].velocity
             /\ particles'[2].velocity = particles[2].velocity

\* the left particle flies to the left and the right one to the right
MovingApart ==
    /\ particles[1].position.x < particles[2].position.x
    /\ particles[1].velocity.x < 0
    /\ particles[2].velocity.x > 0

\* C16 as claimed: the head-on pair is resolved at its first contact, and in
\* all later ticks the counter stays 1.
C16_ResolvedExactlyOnce ==
    [][/\ FirstContact
       /\ collision_count = 1 => collision_count' = 1]_vars

\* C16, amended: the head-on pair is resolved at its first contact, and the
\* counter stays 1 in every later tick that starts with the two particles
\* moving apart, that is until a wall has turned one of them round.
C16_ResolvedOnceWhileApart ==
    [][/\ FirstContact
       /\ (collision_count = 1 /\ MovingApart) => collision_count' = 1]_vars

\* thirty ticks after the start the counter is 1, the particles fly apart with
\* reversed velocities and are far out of each other's range
C16_Witness ==
    /\ horizon = HeadOnTicks
    /\ tick = 30
    /\ collision_count = 1
    /\ MovingApart
    /\ particles[1].velocity = Vector2D(-SPEED_OF_LIGHT, 0)
    /\ particles[2].velocity = Vector2D(SPEED_OF_LIGHT, 0)
    /\ particles[2].position.x - particles[1].position.x > 20 * COLLISION_RADIUS

\* the control surface has sent its last message, the engine is Stopped, and
\* the channel holds a START with no STOP behind it
StartPending ==
    /\ sent = MaxSent
    /\ ~running
    /\ \E i \in 1..Len(param_q) :
          /\ param_q[i].command = "START"
          /\ \A j \in (i + 1)..Len(param_q) : param_q[j].command # "STOP"

\* the last iteration was a running tick
TickJustRan == running /\ reads # NoReads

\* the frame of the last tick is the newest one in the data channel
FramePublished == data_q # << >> /\ Last(data_q).tick = tick - 1

C22_CommandBeforeParams ==
    [][PollStep =>
         /\ Head(param_q).command = "FIRE" =>
              /\ burst'.n = tunable_params.photon_count
              /\ running'
              /\ beam_queue' = tunable_params.photon_count - 1
         /\ tunable_params' = (IF Head(param_q).has_params
                               THEN UpdateParams(tunable_params, Head(param_q))
                               ELSE tunable_params)
         /\ TickStep =>
              /\ reads'.time_scale = tunable_params'.time_scale
              /\ reads'.wall_decay = tunable_params'.global_decay
              /\ reads'.collision_decay = tunable_params'.global_decay]_vars

\* the tick that polled the FIRE carrying photon_count 1, global_decay 0.1 and
\* time_scale 2.0 has just run: the burst is of the 2 stored before, the stored
\* photon_count is 1, and the tick has used the new time scale and decay
C22_Witness ==
    /\ burst # NoBurst /\ burst.n = 2 /\ burst.t0 = tick - 1
    /\ beam_queue = 1
    /\ tunable_params = [photon_count |-> 1, global_decay |-> 10, time_scale |-> 20]
    /\ reads = [time_scale |-> 20, wall_decay |-> 10, collision_decay |-> 10]
    /\ param_q # << >> /\ Head(param_q) = Command("FIRE")

====
